---- MODULE Spec2Model ----
(***************************************************************************)
(* Offline-first synchronisation layer of the utility flow tracker:        *)
(* utilityService (getEntries, saveEntry, saveLocalEntry, deleteEntry,     *)
(* deleteAllEntries, syncUnsyncedEntries), the two localStorage documents  *)
(* it keeps, the Supabase mapper, the remote table and the 'online' event  *)
(* listener.  JavaScript runs the code between two awaits atomically, so   *)
(* every action is one such block; a remote call is three steps: the       *)
(* request is sent, the remote store serves it, the continuation runs.     *)
(***************************************************************************)
EXTENDS Integers, Sequences, FiniteSets, Bags, TLC

\* ------------------------------------------------------------------ bounds
MaxClock == 2        \* Date.now() takes the values 1..MaxClock
MaxUuid == 1         \* the remote store issues at most MaxUuid identifiers
MaxCalls == 2        \* service calls suspended at an await at the same time
MaxDate == 1         \* reading dates are the days 1..MaxDate
MaxListeners == 2    \* registrations of the 'online' listener
MaxSaves == 2        \* saveEntry is called at most MaxSaves times
MaxRows == 2         \* a CSV file has at most MaxRows data rows

\* ------------------------------------------------------- values of fields
\* An identifier is <<kind, n>>: absent, `local-${n}` or the n-th uuid.
NoId == <<"none", 0>>
LocalId(t) == <<"local", t>>
Uuid(n) == <<"uuid", n>>
startsWithLocal(id) == id[1] = "local"

\* A timestamp is the clock value it was taken at; 0 is an absent one.
NoTime == 0
\* Optional text and numeric fields: undefined (left out of the JSON) and
\* null (what the remote store returns for a column without a value).
Undefined == "undefined"
Null == "null"
UndefinedNum == -1
NullNum == -2

ReadingDates == 1..MaxDate

\* The entry a form or an import row hands to saveEntry: no identifier, no
\* timestamps, synced false (UtilityForm.onSubmit).
NewEntry(date) ==
    [id |-> NoId, utilityType |-> "electricity", supplier |-> "Acme",
     readingDate |-> date, reading |-> UndefinedNum, unit |-> Undefined,
     amount |-> 42, notes |-> Undefined, synced |-> FALSE,
     createdAt |-> NoTime, updatedAt |-> NoTime,
     paymentDate |-> Undefined, paymentReference |-> Undefined]

\* ------------------------------------------------------------------ mapper
mapToSupabaseModel(entry) ==
    [id |-> entry.id,
     utilitytype |-> entry.utilityType,
     supplier |-> entry.supplier,
     readingdate |-> entry.readingDate,
     reading |-> entry.reading,
     unit |-> entry.unit,
     amount |-> entry.amount,
     notes |-> entry.notes,
     created_at |-> entry.createdAt,
     updated_at |-> entry.updatedAt,
     payment_date |-> entry.paymentDate,
     payment_reference |-> entry.paymentReference]

mapFromSupabaseModel(record) ==
    [id |-> record.id,
     utilityType |-> record.utilitytype,
     supplier |-> record.supplier,
     readingDate |-> record.readingdate,
     reading |-> record.reading,
     unit |-> record.unit,
     amount |-> record.amount,
     notes |-> record.notes,
     createdAt |-> record.created_at,
     updatedAt |-> record.updated_at,
     synced |-> TRUE,
     paymentDate |-> record.payment_date,
     paymentReference |-> record.payment_reference]

\* ------------------------------------------------------------ collections
\* entries.filter(e => e.id !== id)
FilterOutId(entries, id) == SelectSeq(entries, LAMBDA e : e.id # id)

Ids(entries) == {entries[k].id : k \in 1..Len(entries)}
Range(s) == {s[k] : k \in 1..Len(s)}
WithId(entries, id) == {k \in 1..Len(entries) : entries[k].id = id}

\* ------------------------------------------------------------------- state
VARIABLES
    online,         \* navigator.onLine
    clock,          \* Date.now()
    cache,          \* localStorage[UTILITY_ENTRIES_KEY]: the Local Cache Store
    unsyncedStore,  \* localStorage[UNSYNCED_ENTRIES_KEY]: the Unsynced Set
    remote,         \* the table utility_entries, keyed by id
    nextUuid,       \* number of the next identifier the remote store issues
    calls,          \* the service calls suspended at an await
    listeners,      \* registered 'online' listeners
    saves,          \* calls of saveEntry so far
    lastRet         \* what the call that returned in the last step returned

vars == <<online, clock, cache, unsyncedStore, remote, nextUuid, calls,
          listeners, saves, lastRet>>

NoRet == [op |-> "none"]
NoResp == [error |-> FALSE, data |-> <<>>, served |-> FALSE]

\* calls is a bag: two suspended calls can be equal in every field.
Suspended == BagToSet(calls)
CanSuspend == BagCardinality(calls) < MaxCalls
Start(call) == calls (+) SetToBag({call})
Finish(call) == calls (-) SetToBag({call})
Replace(call, new) == (calls (-) SetToBag({call})) (+) SetToBag({new})
Reply(call, resp) == Replace(call, [call EXCEPT !.pc = "replied", !.resp = resp])

\* --------------------------------------------------- localStorage readers
getLocalEntries == cache
getUnsyncedEntries == unsyncedStore

\* ----------------------------------------------------------- saveLocalEntry
\* saveLocalEntry without the tracking of unsynced entries.
saveLocalEntryUntracked(entry0, now) ==
    LET entry1 == IF entry0.id = NoId
                  THEN [entry0 EXCEPT !.id = LocalId(now), !.createdAt = now]
                  ELSE entry0
        entry == [entry1 EXCEPT !.updatedAt = now]
    IN [entry |-> entry,
        entries |-> Append(FilterOutId(getLocalEntries, entry.id), entry),
        unsynced |-> getUnsyncedEntries]

\* saveLocalEntry pushing the entry without the filter by id.
saveLocalEntryAppending(entry0, now) ==
    LET entry1 == IF entry0.id = NoId
                  THEN [entry0 EXCEPT !.id = LocalId(now), !.createdAt = now]
                  ELSE entry0
        entry == [entry1 EXCEPT !.updatedAt = now]
    IN [entry |-> entry,
        entries |-> Append(getLocalEntries, entry),
        unsynced |-> IF ~entry.synced
                     THEN Append(FilterOutId(getUnsyncedEntries, entry.id), entry)
                     ELSE getUnsyncedEntries]

\* The result: the entry returned and the two documents as written.
saveLocalEntry(entry0, now) ==
    LET entries == getLocalEntries
        entry1 == IF entry0.id = NoId
                  THEN [entry0 EXCEPT !.id = LocalId(now), !.createdAt = now]
                  ELSE entry0
        entry == [entry1 EXCEPT !.updatedAt = now]
        updatedEntries == Append(FilterOutId(entries, entry.id), entry)
        unsynced == getUnsyncedEntries
        updatedUnsynced == Append(FilterOutId(unsynced, entry.id), entry)
    IN [entry |-> entry,
        entries |-> updatedEntries,
        unsynced |-> IF ~entry.synced THEN updatedUnsynced ELSE unsynced]

\* saveLocalEntry letting the exception of setItem out to its caller.
saveLocalEntryRaising(entry0, now, failing) ==
    LET entry1 == IF entry0.id = NoId
                  THEN [entry0 EXCEPT !.id = LocalId(now), !.createdAt = now]
                  ELSE entry0
        entry == [entry1 EXCEPT !.updatedAt = now]
        updatedEntries == Append(FilterOutId(getLocalEntries, entry.id), entry)
    IN [entry |-> entry,
        entries |-> IF failing = "entries" THEN getLocalEntries ELSE updatedEntries,
        unsynced |-> getUnsyncedEntries,
        outcome |-> "raised"]

\* saveLocalEntry when localStorage.setItem throws, at the write of the
\* entries (`failing` = "entries": nothing is written) or at the write of
\* the unsynced entries ("unsynced": only the entries are written).  The
\* entry already carries its identifier and updatedAt; the catch block
\* returns it.
saveLocalEntryThrowing(entry0, now, failing) ==
    LET entries == getLocalEntries
        entry1 == IF entry0.id = NoId
                  THEN [entry0 EXCEPT !.id = LocalId(now), !.createdAt = now]
                  ELSE entry0
        entry == [entry1 EXCEPT !.updatedAt = now]
        updatedEntries == Append(FilterOutId(entries, entry.id), entry)
    IN [entry |-> entry,
        entries |-> IF failing = "entries" THEN entries ELSE updatedEntries,
        unsynced |-> getUnsyncedEntries,
        outcome |-> "entry"]

\* ------------------------------------------------------------ remote store
\* A column left out of the request is stored, and returned, as null.
StoredRow(row, id, now) ==
    [row EXCEPT
       !.id = id,
       !.reading = IF @ = UndefinedNum THEN NullNum ELSE @,
       !.unit = IF @ = Undefined THEN Null ELSE @,
       !.notes = IF @ = Undefined THEN Null ELSE @,
       !.created_at = IF @ = NoTime THEN now ELSE @,
       !.updated_at = IF @ = NoTime THEN now ELSE @,
       !.payment_date = IF @ = Undefined THEN Null ELSE @,
       !.payment_reference = IF @ = Undefined THEN Null ELSE @]

\* upsert([row]).select().single(): insert or replace by id; a row without an
\* id gets the next uuid.
UpsertId(row) == IF row.id = NoId THEN Uuid(nextUuid) ELSE row.id

Put(table, id, row) ==
    [x \in DOMAIN table \cup {id} |-> IF x = id THEN row ELSE table[x]]

Drop(table, ids) == [x \in DOMAIN table \ ids |-> table[x]]

\* select('*').order('readingdate', {ascending: false}): every order of the
\* rows that is descending in readingdate (equal dates come in any order).
SelectAll(table) ==
    LET n == Cardinality(DOMAIN table)
    IN {[k \in 1..n |-> table[f[k]]] :
          f \in {g \in [1..n -> DOMAIN table] :
                   /\ \A a, b \in 1..n : a # b => g[a] # g[b]
                   /\ \A a, b \in 1..n :
                        a < b => table[g[a]].readingdate >= table[g[b]].readingdate}}

\* data.map(mapFromSupabaseModel)
MapAll(rows) == [k \in 1..Len(rows) |-> mapFromSupabaseModel(rows[k])]

\* ------------------------------------------------------------------- Init
Init ==
    /\ online \in BOOLEAN
    /\ clock = 1
    /\ cache = <<>>
    /\ unsyncedStore = <<>>
    /\ remote = <<>>
    /\ nextUuid = 1
    /\ calls = EmptyBag
    /\ listeners = 1
    /\ saves = 0
    /\ lastRet = NoRet

\* ------------------------------------------------------------ environment
Tick ==
    /\ clock < MaxClock
    /\ clock' = clock + 1
    /\ lastRet' = NoRet
    /\ UNCHANGED <<online, cache, unsyncedStore, remote, nextUuid, calls, listeners, saves>>

GoOffline ==
    /\ online
    /\ online' = FALSE
    /\ lastRet' = NoRet
    /\ UNCHANGED <<clock, cache, unsyncedStore, remote, nextUuid, calls, listeners, saves>>

\* The entries a caller can hold: the ones the service has handed out and
\* still keeps (the history table and the edit form show getEntries' result).
KnownEntries == Range(cache) \cup Range(unsyncedStore)

\* A new entry, or an edit of a known one: the form keeps the identifier and
\* drops the timestamps, another caller may pass the entry's createdAt on.
SaveInputs ==
    {NewEntry(d) : d \in ReadingDates}
      \cup UNION {{[NewEntry(d) EXCEPT !.id = e.id, !.createdAt = t] :
                      d \in ReadingDates, t \in {NoTime, e.createdAt}} :
                    e \in KnownEntries}

\* -------------------------------------------------------------- saveEntry
\* entryToSave = {...entry, updatedAt: now, createdAt: entry.createdAt || now}
EntryToSave(entry, now) ==
    [entry EXCEPT !.updatedAt = now,
                  !.createdAt = IF entry.createdAt # NoTime THEN entry.createdAt ELSE now]

\* saveEntry while offline: the local-only save, in one block.
SaveEntryOffline ==
    /\ ~online
    /\ saves < MaxSaves
    /\ saves' = saves + 1
    /\ \E entry \in SaveInputs :
         LET entryToSave == EntryToSave(entry, clock)
             r == saveLocalEntry([entryToSave EXCEPT !.synced = FALSE], clock)
         IN /\ cache' = r.entries
            /\ unsyncedStore' = r.unsynced
            /\ lastRet' = [op |-> "saveEntry", entry |-> entry, online |-> FALSE,
                           remote |-> "none", upserts |-> 0, result |-> r.entry,
                           outcome |-> "entry", storage |-> "ok"]
    /\ UNCHANGED <<online, clock, remote, nextUuid, calls, listeners>>

\* saveEntry while online, up to the await of the upsert.
SaveEntrySend ==
    /\ online
    /\ CanSuspend
    /\ saves < MaxSaves
    /\ saves' = saves + 1
    /\ \E entry \in SaveInputs :
         LET entryToSave == EntryToSave(entry, clock)
         IN calls' = Start([op |-> "saveEntry", pc |-> "sent", entry |-> entry,
                            entryToSave |-> entryToSave,
                            req |-> mapToSupabaseModel(entryToSave),
                            resp |-> NoResp])
    /\ lastRet' = NoRet
    /\ UNCHANGED <<online, clock, cache, unsyncedStore, remote, nextUuid, listeners>>

\* saveEntry handing the entry back after a remote error without the
\* local-only save.
SaveEntryReturnWithoutFallback(call) ==
    /\ call.op = "saveEntry"
    /\ call.pc = "replied"
    /\ LET savedEntry == mapFromSupabaseModel(call.resp.data)
           updatedEntries == Append(FilterOutId(getLocalEntries, savedEntry.id), savedEntry)
       IN IF call.resp.error
          THEN /\ UNCHANGED <<cache, unsyncedStore>>
               /\ lastRet' = [op |-> "saveEntry", entry |-> call.entry, online |-> TRUE,
                              remote |-> "error", upserts |-> 1,
                              result |-> [call.entryToSave EXCEPT !.synced = FALSE],
                              outcome |-> "entry", storage |-> "ok"]
          ELSE /\ cache' = updatedEntries
               /\ UNCHANGED unsyncedStore
               /\ lastRet' = [op |-> "saveEntry", entry |-> call.entry, online |-> TRUE,
                              remote |-> "ok", upserts |-> 1, result |-> savedEntry,
                              outcome |-> "entry", storage |-> "ok"]
    /\ calls' = Finish(call)
    /\ UNCHANGED <<online, clock, remote, nextUuid, listeners, saves>>

\* saveEntry pushing the confirmed entry without the filter by id.
SaveEntryReturnAppending(call) ==
    /\ call.op = "saveEntry"
    /\ call.pc = "replied"
    /\ LET savedEntry == mapFromSupabaseModel(call.resp.data)
           updatedEntries == Append(getLocalEntries, savedEntry)
           r == saveLocalEntry([call.entryToSave EXCEPT !.synced = FALSE], clock)
       IN IF call.resp.error
          THEN /\ cache' = r.entries
               /\ unsyncedStore' = r.unsynced
               /\ lastRet' = [op |-> "saveEntry", entry |-> call.entry, online |-> TRUE,
                              remote |-> "error", upserts |-> 1, result |-> r.entry,
                              outcome |-> "entry", storage |-> "ok"]
          ELSE /\ cache' = updatedEntries
               /\ UNCHANGED unsyncedStore
               /\ lastRet' = [op |-> "saveEntry", entry |-> call.entry, online |-> TRUE,
                              remote |-> "ok", upserts |-> 1, result |-> savedEntry,
                              outcome |-> "entry", storage |-> "ok"]
    /\ calls' = Finish(call)
    /\ UNCHANGED <<online, clock, remote, nextUuid, listeners, saves>>

\* saveEntry after the await: mirror the confirmed row, or fall back.
SaveEntryReturn(call) ==
    /\ call.op = "saveEntry"
    /\ call.pc = "replied"
    /\ LET savedEntry == mapFromSupabaseModel(call.resp.data)
           updatedEntries == Append(FilterOutId(getLocalEntries, savedEntry.id), savedEntry)
           r == saveLocalEntry([call.entryToSave EXCEPT !.synced = FALSE], clock)
       IN IF call.resp.error
          THEN /\ cache' = r.entries
               /\ unsyncedStore' = r.unsynced
               /\ lastRet' = [op |-> "saveEntry", entry |-> call.entry, online |-> TRUE,
                              remote |-> "error", upserts |-> 1, result |-> r.entry,
                              outcome |-> "entry", storage |-> "ok"]
          ELSE /\ cache' = updatedEntries
               /\ UNCHANGED unsyncedStore
               /\ lastRet' = [op |-> "saveEntry", entry |-> call.entry, online |-> TRUE,
                              remote |-> "ok", upserts |-> 1, result |-> savedEntry,
                              outcome |-> "entry", storage |-> "ok"]
    /\ calls' = Finish(call)
    /\ UNCHANGED <<online, clock, remote, nextUuid, listeners, saves>>

\* ----------------------------------------------- the remote store serving
\* The table with a text id column: a `local-` id is accepted as it is.
RemoteUpsertTextId(call) ==
    /\ call.op \in {"saveEntry", "syncUnsyncedEntries"}
    /\ call.pc = "sent"
    /\ call.req.id = NoId => nextUuid <= MaxUuid
    /\ LET id == UpsertId(call.req)
           row == StoredRow(call.req, id, clock)
       IN /\ remote' = Put(remote, id, row)
          /\ nextUuid' = IF call.req.id = NoId THEN nextUuid + 1 ELSE nextUuid
          /\ calls' = Reply(call, [error |-> FALSE, data |-> row, served |-> TRUE])
    /\ lastRet' = NoRet
    /\ UNCHANGED <<online, clock, cache, unsyncedStore, listeners, saves>>

\* The table accepts the row: id is a uuid column, so a `local-` id is
\* refused, and a row without id needs a fresh uuid.
RemoteUpsert(call) ==
    /\ call.op \in {"saveEntry", "syncUnsyncedEntries"}
    /\ call.pc = "sent"
    /\ ~startsWithLocal(call.req.id)
    /\ call.req.id = NoId => nextUuid <= MaxUuid
    /\ LET id == UpsertId(call.req)
           row == StoredRow(call.req, id, clock)
       IN /\ remote' = Put(remote, id, row)
          /\ nextUuid' = IF call.req.id = NoId THEN nextUuid + 1 ELSE nextUuid
          /\ calls' = Reply(call, [error |-> FALSE, data |-> row, served |-> TRUE])
    /\ lastRet' = NoRet
    /\ UNCHANGED <<online, clock, cache, unsyncedStore, listeners, saves>>

\* Any request can fail: the network or the remote store reports an error.
RemoteError(call) ==
    /\ call.pc = "sent"
    /\ calls' = Reply(call, [error |-> TRUE, data |-> <<>>, served |-> TRUE])
    /\ lastRet' = NoRet
    /\ UNCHANGED <<online, clock, cache, unsyncedStore, remote, nextUuid, listeners, saves>>

RemoteSelect(call) ==
    /\ call.op = "getEntries"
    /\ call.pc = "sent"
    /\ \E rows \in SelectAll(remote) :
         calls' = Reply(call, [error |-> FALSE, data |-> rows, served |-> TRUE])
    /\ lastRet' = NoRet
    /\ UNCHANGED <<online, clock, cache, unsyncedStore, remote, nextUuid, listeners, saves>>

\* delete().eq('id', id): succeeds whether or not a row has that id.
RemoteDelete(call) ==
    /\ call.op = "deleteEntry"
    /\ call.pc = "sent"
    /\ remote' = Drop(remote, {call.id})
    /\ calls' = Reply(call, [error |-> FALSE, data |-> <<>>, served |-> TRUE])
    /\ lastRet' = NoRet
    /\ UNCHANGED <<online, clock, cache, unsyncedStore, nextUuid, listeners, saves>>

\* delete().not('id', 'is', null): every row.
RemoteDeleteAll(call) ==
    /\ call.op = "deleteAllEntries"
    /\ call.pc = "sent"
    /\ remote' = Drop(remote, DOMAIN remote)
    /\ calls' = Reply(call, [error |-> FALSE, data |-> <<>>, served |-> TRUE])
    /\ lastRet' = NoRet
    /\ UNCHANGED <<online, clock, cache, unsyncedStore, nextUuid, listeners, saves>>

\* -------------------------------------------------------------- getEntries
GetEntriesOffline ==
    /\ ~online
    /\ lastRet' = [op |-> "getEntries", online |-> FALSE, remote |-> "none",
                   selects |-> 0, result |-> getLocalEntries]
    /\ UNCHANGED <<online, clock, cache, unsyncedStore, remote, nextUuid, calls, listeners, saves>>

GetEntriesCall == [op |-> "getEntries", pc |-> "sent", resp |-> NoResp]

GetEntriesSend ==
    /\ online
    /\ CanSuspend
    /\ calls' = Start(GetEntriesCall)
    /\ lastRet' = NoRet
    /\ UNCHANGED <<online, clock, cache, unsyncedStore, remote, nextUuid, listeners, saves>>

\* getEntries keeping the local-only records of the cache next to the
\* fetched ones.
GetEntriesReturnMerging(call) ==
    /\ call.op = "getEntries"
    /\ call.pc = "replied"
    /\ LET mappedData == MapAll(call.resp.data)
           merged == mappedData \o SelectSeq(getLocalEntries,
                                             LAMBDA e : startsWithLocal(e.id))
       IN IF call.resp.error
          THEN /\ lastRet' = [op |-> "getEntries", online |-> TRUE, remote |-> "error",
                              selects |-> 1, result |-> getLocalEntries]
               /\ UNCHANGED cache
          ELSE /\ cache' = merged
               /\ lastRet' = [op |-> "getEntries", online |-> TRUE, remote |-> "ok",
                              selects |-> 1, result |-> merged]
    /\ calls' = Finish(call)
    /\ UNCHANGED <<online, clock, unsyncedStore, remote, nextUuid, listeners, saves>>

\* getEntries writing the empty result of a failed fetch to the cache.
GetEntriesReturnOverwriting(call) ==
    /\ call.op = "getEntries"
    /\ call.pc = "replied"
    /\ LET mappedData == MapAll(call.resp.data)
       IN /\ cache' = mappedData
          /\ lastRet' = [op |-> "getEntries", online |-> TRUE,
                         remote |-> IF call.resp.error THEN "error" ELSE "ok",
                         selects |-> 1, result |-> mappedData]
    /\ calls' = Finish(call)
    /\ UNCHANGED <<online, clock, unsyncedStore, remote, nextUuid, listeners, saves>>

GetEntriesReturn(call) ==
    /\ call.op = "getEntries"
    /\ call.pc = "replied"
    /\ LET mappedData == MapAll(call.resp.data)
       IN IF call.resp.error
          THEN /\ lastRet' = [op |-> "getEntries", online |-> TRUE, remote |-> "error",
                              selects |-> 1, result |-> getLocalEntries]
               /\ UNCHANGED cache
          ELSE /\ cache' = mappedData
               /\ lastRet' = [op |-> "getEntries", online |-> TRUE, remote |-> "ok",
                              selects |-> 1, result |-> mappedData]
    /\ calls' = Finish(call)
    /\ UNCHANGED <<online, clock, unsyncedStore, remote, nextUuid, listeners, saves>>

\* ------------------------------------------------------------- deleteEntry
DeleteInputs == {e.id : e \in KnownEntries}

\* The remote delete decided by isOnline() alone.
NeedsRemoteDeleteAnyId(id) == online

\* isOnline() && !id.startsWith('local-')
NeedsRemoteDelete(id) == online /\ ~startsWithLocal(id)

\* What deleteEntry writes once it is past the remote call.
DeleteLocally(id) ==
    /\ cache' = FilterOutId(getLocalEntries, id)
    /\ unsyncedStore' = FilterOutId(getUnsyncedEntries, id)

\* Offline, or a `local-` identifier: no remote call, no await.
DeleteEntryLocal ==
    /\ \E id \in DeleteInputs :
         /\ ~NeedsRemoteDelete(id)
         /\ DeleteLocally(id)
         /\ lastRet' = [op |-> "deleteEntry", id |-> id, online |-> online,
                        remote |-> "none", deletes |-> 0, result |-> TRUE]
    /\ UNCHANGED <<online, clock, remote, nextUuid, calls, listeners, saves>>

DeleteEntrySend ==
    /\ CanSuspend
    /\ \E id \in DeleteInputs :
         /\ NeedsRemoteDelete(id)
         /\ calls' = Start([op |-> "deleteEntry", pc |-> "sent", id |-> id,
                            resp |-> NoResp])
    /\ lastRet' = NoRet
    /\ UNCHANGED <<online, clock, cache, unsyncedStore, remote, nextUuid, listeners, saves>>

\* deleteEntry going on to the local removal after a remote error.
DeleteEntryReturnIgnoringError(call) ==
    /\ call.op = "deleteEntry"
    /\ call.pc = "replied"
    /\ DeleteLocally(call.id)
    /\ lastRet' = [op |-> "deleteEntry", id |-> call.id, online |-> TRUE,
                   remote |-> IF call.resp.error THEN "error" ELSE "ok",
                   deletes |-> 1, result |-> ~call.resp.error]
    /\ calls' = Finish(call)
    /\ UNCHANGED <<online, clock, remote, nextUuid, listeners, saves>>

DeleteEntryReturn(call) ==
    /\ call.op = "deleteEntry"
    /\ call.pc = "replied"
    /\ IF call.resp.error
       THEN /\ lastRet' = [op |-> "deleteEntry", id |-> call.id, online |-> TRUE,
                           remote |-> "error", deletes |-> 1, result |-> FALSE]
            /\ UNCHANGED <<cache, unsyncedStore>>
       ELSE /\ DeleteLocally(call.id)
            /\ lastRet' = [op |-> "deleteEntry", id |-> call.id, online |-> TRUE,
                           remote |-> "ok", deletes |-> 1, result |-> TRUE]
    /\ calls' = Finish(call)
    /\ UNCHANGED <<online, clock, remote, nextUuid, listeners, saves>>

\* -------------------------------------------------------- deleteAllEntries
\* deleteAllEntries clearing the entries and not the unsynced ones.
ClearEntriesOnly ==
    /\ cache' = <<>>
    /\ UNCHANGED unsyncedStore

ClearLocally ==
    /\ cache' = <<>>
    /\ unsyncedStore' = <<>>

DeleteAllOffline ==
    /\ ~online
    /\ ClearLocally
    /\ lastRet' = [op |-> "deleteAllEntries", online |-> FALSE, remote |-> "none",
                   deletes |-> 0, held |-> Len(cache) + Len(unsyncedStore),
                   result |-> TRUE]
    /\ UNCHANGED <<online, clock, remote, nextUuid, calls, listeners, saves>>

DeleteAllSend ==
    /\ online
    /\ CanSuspend
    /\ calls' = Start([op |-> "deleteAllEntries", pc |-> "sent", resp |-> NoResp])
    /\ lastRet' = NoRet
    /\ UNCHANGED <<online, clock, cache, unsyncedStore, remote, nextUuid, listeners, saves>>

\* deleteAllEntries going on to clear the documents after a remote error.
DeleteAllReturnIgnoringError(call) ==
    /\ call.op = "deleteAllEntries"
    /\ call.pc = "replied"
    /\ ClearLocally
    /\ lastRet' = [op |-> "deleteAllEntries", online |-> TRUE,
                   remote |-> IF call.resp.error THEN "error" ELSE "ok",
                   deletes |-> 1, held |-> Len(cache) + Len(unsyncedStore),
                   result |-> ~call.resp.error]
    /\ calls' = Finish(call)
    /\ UNCHANGED <<online, clock, remote, nextUuid, listeners, saves>>

DeleteAllReturn(call) ==
    /\ call.op = "deleteAllEntries"
    /\ call.pc = "replied"
    /\ IF call.resp.error
       THEN /\ lastRet' = [op |-> "deleteAllEntries", online |-> TRUE, remote |-> "error",
                           deletes |-> 1, held |-> Len(cache) + Len(unsyncedStore),
                           result |-> FALSE]
            /\ UNCHANGED <<cache, unsyncedStore>>
       ELSE /\ ClearLocally
            /\ lastRet' = [op |-> "deleteAllEntries", online |-> TRUE, remote |-> "ok",
                           deletes |-> 1, held |-> Len(cache) + Len(unsyncedStore),
                           result |-> TRUE]
    /\ calls' = Finish(call)
    /\ UNCHANGED <<online, clock, remote, nextUuid, listeners, saves>>

\* ----------------------------------------------------- syncUnsyncedEntries
\* The row one iteration of the loop upserts: a `local-` id is stripped.
SyncRequest(entry) ==
    LET entryToSync == [entry EXCEPT
                          !.id = IF startsWithLocal(entry.id) THEN NoId ELSE @,
                          !.synced = TRUE]
    IN mapToSupabaseModel(entryToSync)

\* The loop going back to the entry before instead of on to the next one.
SyncAwaitSameEntry(unsynced, i, syncedCount, failed, undisturbed, by) ==
    LET j == IF i > 1 THEN i - 1 ELSE i
    IN [op |-> "syncUnsyncedEntries", pc |-> "sent", unsynced |-> unsynced, i |-> j,
        syncedCount |-> syncedCount, req |-> SyncRequest(unsynced[j]),
        resp |-> NoResp, failed |-> failed, upserts |-> i,
        lastSeen |-> unsyncedStore', undisturbed |-> undisturbed, by |-> by]

\* The call suspended at the upsert of the i-th entry of its snapshot.
\* failed, upserts, lastSeen and undisturbed only observe the run: the ids
\* whose upsert failed, the upserts issued, the Unsynced Set as the run left
\* it, and whether nobody else has written the Unsynced Set since.
SyncAwait(unsynced, i, syncedCount, failed, undisturbed, by) ==
    [op |-> "syncUnsyncedEntries", pc |-> "sent", unsynced |-> unsynced, i |-> i,
     syncedCount |-> syncedCount, req |-> SyncRequest(unsynced[i]),
     resp |-> NoResp, failed |-> failed, upserts |-> i,
     lastSeen |-> unsyncedStore', undisturbed |-> undisturbed, by |-> by]

SyncRet(isOn, unsynced, syncedCount, failed, upserts, undisturbed, by) ==
    [op |-> "syncUnsyncedEntries", online |-> isOn, unsynced |-> unsynced,
     result |-> syncedCount, failed |-> failed, upserts |-> upserts,
     undisturbed |-> undisturbed, by |-> by]

\* syncUnsyncedEntries without the isOnline() check: offline with entries
\* pending, the run goes on to its first upsert.
SyncNothingWithoutOnlineCheck ==
    /\ ~online \/ getUnsyncedEntries = <<>>
    /\ UNCHANGED <<online, clock, cache, unsyncedStore, remote, nextUuid, listeners, saves>>
    /\ IF getUnsyncedEntries = <<>>
       THEN /\ lastRet' = SyncRet(online, <<>>, 0, {}, 0, TRUE, "call")
            /\ UNCHANGED calls
       ELSE /\ CanSuspend
            /\ calls' = Start(SyncAwait(getUnsyncedEntries, 1, 0, {}, TRUE, "call"))
            /\ lastRet' = NoRet

\* Offline, or nothing pending: returns 0 before any await.
SyncNothing ==
    /\ ~online \/ getUnsyncedEntries = <<>>
    /\ lastRet' = SyncRet(online, IF online THEN getUnsyncedEntries ELSE <<>>,
                          0, {}, 0, TRUE, "call")
    /\ UNCHANGED <<online, clock, cache, unsyncedStore, remote, nextUuid, calls, listeners, saves>>

SyncSend ==
    /\ online
    /\ getUnsyncedEntries # <<>>
    /\ CanSuspend
    /\ UNCHANGED <<online, clock, cache, unsyncedStore, remote, nextUuid, listeners, saves>>
    /\ calls' = Start(SyncAwait(getUnsyncedEntries, 1, 0, {}, TRUE, "call"))
    /\ lastRet' = NoRet

\* The pending copy left in the Unsynced Set after its upsert succeeded.
SyncRemainingKeepingEntry(entry) == getUnsyncedEntries

\* What a successful upsert of `entry` writes to the two documents.
SyncRemaining(entry) == FilterOutId(getUnsyncedEntries, entry.id)

\* The continuation writing the confirmed entry over the whole document,
\* as if it had not read the document again after the await.
SyncUpdatedEntriesOverwriting(entry, syncedEntry) == <<syncedEntry>>

\* The confirmed entry pushed without removing the record under the old id.
SyncUpdatedEntriesKeepingOld(entry, syncedEntry) ==
    Append(getLocalEntries, syncedEntry)

SyncUpdatedEntries(entry, syncedEntry) ==
    Append(FilterOutId(getLocalEntries, entry.id), syncedEntry)

\* The loop left at the first upsert that fails.
SyncDoneAtFailure(call) == call.resp.error \/ call.i >= Len(call.unsynced)

\* for (const entry of unsynced): the loop ends after the last entry of the
\* snapshot, whatever the upserts answered.
SyncDone(call) == call.i >= Len(call.unsynced)

\* The continuation of one upsert: on success the pending copy goes and the
\* confirmed entry replaces the record under the old id; then the loop goes
\* on to the next entry of the snapshot, or the run returns.
SyncContinue(call) ==
    /\ call.op = "syncUnsyncedEntries"
    /\ call.pc = "replied"
    /\ UNCHANGED <<online, clock, remote, nextUuid, listeners, saves>>
    /\ LET entry == call.unsynced[call.i]
           syncedEntry == mapFromSupabaseModel(call.resp.data)
           remaining == SyncRemaining(entry)
           updatedEntries == SyncUpdatedEntries(entry, syncedEntry)
           syncedCount == IF call.resp.error THEN call.syncedCount ELSE call.syncedCount + 1
           failed == IF call.resp.error THEN call.failed \cup {entry.id} ELSE call.failed
           undisturbed == call.undisturbed /\ getUnsyncedEntries = call.lastSeen
       IN /\ IF call.resp.error
             THEN UNCHANGED <<cache, unsyncedStore>>
             ELSE /\ unsyncedStore' = remaining
                  /\ cache' = updatedEntries
          /\ IF ~SyncDone(call)
             THEN /\ calls' = Replace(call,
                                 SyncAwait(call.unsynced, call.i + 1, syncedCount,
                                           failed, undisturbed, call.by))
                  /\ lastRet' = NoRet
             ELSE /\ calls' = Finish(call)
                  /\ lastRet' = SyncRet(TRUE, call.unsynced, syncedCount, failed,
                                        call.upserts, undisturbed, call.by)

\* ------------------------------------------------------ network listeners
\* window.addEventListener('online', ...): one more listener each time.
SetupNetworkListeners ==
    /\ listeners < MaxListeners
    /\ listeners' = listeners + 1
    /\ lastRet' = NoRet
    /\ UNCHANGED <<online, clock, cache, unsyncedStore, remote, nextUuid, calls, saves>>

\* Connectivity returns: the 'online' event runs every registered listener,
\* and each starts a run of syncUnsyncedEntries, up to its first await.
GoOnline ==
    /\ ~online
    /\ online' = TRUE
    /\ UNCHANGED <<clock, cache, unsyncedStore, remote, nextUuid, listeners, saves>>
    /\ IF listeners = 0
       THEN /\ lastRet' = NoRet
            /\ UNCHANGED calls
       ELSE IF getUnsyncedEntries = <<>>
       THEN /\ lastRet' = SyncRet(TRUE, <<>>, 0, {}, 0, TRUE, "event")
            /\ UNCHANGED calls
       ELSE /\ BagCardinality(calls) + listeners <= MaxCalls
            /\ calls' = calls (+) [call \in {SyncAwait(getUnsyncedEntries, 1, 0, {}, TRUE, "event")}
                                     |-> listeners]
            /\ lastRet' = NoRet

Next ==
    \/ Tick
    \/ GoOffline
    \/ GoOnline
    \/ SetupNetworkListeners
    \/ GetEntriesOffline
    \/ GetEntriesSend
    \/ \E call \in Suspended : GetEntriesReturn(call)
    \/ SaveEntryOffline
    \/ SaveEntrySend
    \/ \E call \in Suspended : SaveEntryReturn(call)
    \/ DeleteEntryLocal
    \/ DeleteEntrySend
    \/ \E call \in Suspended : DeleteEntryReturn(call)
    \/ DeleteAllOffline
    \/ DeleteAllSend
    \/ \E call \in Suspended : DeleteAllReturn(call)
    \/ SyncNothing
    \/ SyncSend
    \/ \E call \in Suspended : SyncContinue(call)
    \/ \E call \in Suspended : RemoteSelect(call)
    \/ \E call \in Suspended : RemoteUpsert(call)
    \/ \E call \in Suspended : RemoteDelete(call)
    \/ \E call \in Suspended : RemoteDeleteAll(call)
    \/ \E call \in Suspended : RemoteError(call)

Spec == Init /\ [][Next]_vars

\* ------------------------------------------- runs in which nothing is deleted
\* The service without deleteEntry and deleteAllEntries: the runs in which
\* no entry is deleted.
NextWithoutDelete ==
    \/ Tick
    \/ GoOffline
    \/ GoOnline
    \/ SetupNetworkListeners
    \/ GetEntriesOffline
    \/ GetEntriesSend
    \/ \E call \in Suspended : GetEntriesReturn(call)
    \/ SaveEntryOffline
    \/ SaveEntrySend
    \/ \E call \in Suspended : SaveEntryReturn(call)
    \/ SyncNothing
    \/ SyncSend
    \/ \E call \in Suspended : SyncContinue(call)
    \/ \E call \in Suspended : RemoteSelect(call)
    \/ \E call \in Suspended : RemoteUpsert(call)
    \/ \E call \in Suspended : RemoteError(call)

\* The identifiers a run of syncUnsyncedEntries still has to upsert, the one
\* it is at included.
Rest(call) ==
    [k \in 1..(Len(call.unsynced) - call.i + 1) |-> call.unsynced[call.i + k - 1].id]

\* Every identifier an entry can have within the bounds, and what Rest can
\* be: the Unsynced Set holds one entry per identifier, each put there by a
\* saveEntry.
AllIds == {LocalId(t) : t \in 1..MaxClock} \cup {Uuid(n) : n \in 1..MaxUuid}

AllRests ==
    UNION {{ids \in [1..n -> AllIds] : \A a, b \in 1..n : a # b => ids[a] # ids[b]} :
             n \in 1..MaxSaves}

\* The upsert of a run that has `ids` left is answered, well or badly.
SyncUpsertAnswered(ids) ==
    \E call \in Suspended :
        /\ call.op = "syncUnsyncedEntries"
        /\ Rest(call) = ids
        /\ RemoteUpsert(call) \/ RemoteError(call)

\* The continuation of a run that has `ids` left runs.
SyncContinued(ids) ==
    \E call \in Suspended :
        /\ call.op = "syncUnsyncedEntries"
        /\ Rest(call) = ids
        /\ SyncContinue(call)

\* The upsert of a run of syncUnsyncedEntries is accepted.
SyncUpsertAccepted ==
    \E call \in Suspended :
        /\ call.op = "syncUnsyncedEntries"
        /\ RemoteUpsert(call)

\* The remote store answers the upsert of every run (a run cannot be
\* cancelled and has no timeout) and the event loop then runs the run's
\* continuation; the remote store accepts an upsert if upserts keep being
\* issued.
FairSpec ==
    /\ Init
    /\ [][NextWithoutDelete]_vars
    /\ \A ids \in AllRests : WF_vars(SyncUpsertAnswered(ids))
    /\ \A ids \in AllRests : WF_vars(SyncContinued(ids))
    /\ SF_vars(SyncUpsertAccepted)

\* --------------------------------------- saveEntry with a throwing setItem
\* Where localStorage.setItem can throw within saveLocalEntry.
SetItemFailures == {"entries", "unsynced"}

\* saveEntry while offline, a setItem of saveLocalEntry throwing.
SaveEntryOfflineThrowing ==
    /\ ~online
    /\ saves < MaxSaves
    /\ saves' = saves + 1
    /\ \E entry \in SaveInputs, failing \in SetItemFailures :
         LET entryToSave == EntryToSave(entry, clock)
             r == saveLocalEntryThrowing([entryToSave EXCEPT !.synced = FALSE], clock, failing)
         IN /\ cache' = r.entries
            /\ unsyncedStore' = r.unsynced
            /\ lastRet' = [op |-> "saveEntry", entry |-> entry, online |-> FALSE,
                           remote |-> "none", upserts |-> 0, result |-> r.entry,
                           outcome |-> r.outcome, storage |-> failing]
    /\ UNCHANGED <<online, clock, remote, nextUuid, calls, listeners>>

\* saveEntry after the await, a setItem throwing.  After a remote error it
\* is one of saveLocalEntry.  After a success it is the write of the cache:
\* the catch block of saveEntry then runs saveLocalEntry on the entry as it
\* was passed in, whose writes may throw again or go through.
SaveEntryReturnThrowing(call) ==
    /\ call.op = "saveEntry"
    /\ call.pc = "replied"
    /\ IF call.resp.error
       THEN \E failing \in SetItemFailures :
              LET r == saveLocalEntryThrowing([call.entryToSave EXCEPT !.synced = FALSE],
                                              clock, failing)
              IN /\ cache' = r.entries
                 /\ unsyncedStore' = r.unsynced
                 /\ lastRet' = [op |-> "saveEntry", entry |-> call.entry, online |-> TRUE,
                                remote |-> "error", upserts |-> 1, result |-> r.entry,
                                outcome |-> r.outcome, storage |-> failing]
       ELSE \E failing \in SetItemFailures \cup {"cache"} :
              LET e == [call.entry EXCEPT !.synced = FALSE]
                  r == IF failing = "cache"
                       THEN saveLocalEntry(e, clock) @@ [outcome |-> "entry"]
                       ELSE saveLocalEntryThrowing(e, clock, failing)
              IN /\ cache' = r.entries
                 /\ unsyncedStore' = r.unsynced
                 /\ lastRet' = [op |-> "saveEntry", entry |-> call.entry, online |-> TRUE,
                                remote |-> "ok", upserts |-> 1, result |-> r.entry,
                                outcome |-> r.outcome, storage |-> failing]
    /\ calls' = Finish(call)
    /\ UNCHANGED <<online, clock, remote, nextUuid, listeners, saves>>

\* deleteEntry and deleteAllEntries have no part in what saveEntry returns
\* and are left out.
NextWithSetItemThrowing ==
    \/ NextWithoutDelete
    \/ SaveEntryOfflineThrowing
    \/ \E call \in Suspended : SaveEntryReturnThrowing(call)

SetItemThrowingSpec == Init /\ [][NextWithSetItemThrowing]_vars

\* ------------------------------------------------- the mappers on their own
\* The mapper of lib/supabase.ts, which the pages and components import: it
\* has no payment columns.  A property the record does not have reads as
\* undefined.
mapToSupabaseModelNoPayment(entry) ==
    [id |-> entry.id,
     utilitytype |-> entry.utilityType,
     supplier |-> entry.supplier,
     readingdate |-> entry.readingDate,
     reading |-> entry.reading,
     unit |-> entry.unit,
     amount |-> entry.amount,
     notes |-> entry.notes,
     created_at |-> entry.createdAt,
     updated_at |-> entry.updatedAt]

mapFromSupabaseModelNoPayment(record) ==
    [id |-> record.id,
     utilityType |-> record.utilitytype,
     supplier |-> record.supplier,
     readingDate |-> record.readingdate,
     reading |-> record.reading,
     unit |-> record.unit,
     amount |-> record.amount,
     notes |-> record.notes,
     createdAt |-> record.created_at,
     updatedAt |-> record.updated_at,
     synced |-> TRUE,
     paymentDate |-> Undefined,
     paymentReference |-> Undefined]

\* The entries the mappers are applied to: every identifier, optional fields
\* present or undefined, timestamps present or absent.
MapperEntries ==
    {[NewEntry(d) EXCEPT !.id = id, !.reading = r, !.notes = n, !.synced = sy,
                         !.createdAt = c, !.updatedAt = c,
                         !.paymentDate = pd, !.paymentReference = pr] :
        d \in ReadingDates, id \in AllIds \cup {NoId}, r \in {UndefinedNum, 7},
        n \in {Undefined, "n"}, sy \in BOOLEAN, c \in 0..MaxClock,
        pd \in {Undefined, "2024-01-31"}, pr \in {Undefined, "ref"}}

\* The two mapper modules of the repository.
MapperVariants == {"supabaseMapping", "supabase"}

RoundTrip(variant, entry) ==
    IF variant = "supabaseMapping"
    THEN mapFromSupabaseModel(mapToSupabaseModel(entry))
    ELSE mapFromSupabaseModelNoPayment(mapToSupabaseModelNoPayment(entry))

\* An entry is handed to one of the mappers.
MapperInit ==
    /\ online \in BOOLEAN
    /\ clock = 1
    /\ cache = <<>>
    /\ unsyncedStore = <<>>
    /\ remote = <<>>
    /\ nextUuid = 1
    /\ calls = EmptyBag
    /\ listeners = 1
    /\ saves = 0
    /\ lastRet \in [op : {"mapper"}, variant : MapperVariants, entry : MapperEntries]

\* The entry is mapped to the remote model and back.
ApplyMappers ==
    /\ lastRet.op = "mapper"
    /\ lastRet' = [op |-> "roundTrip", variant |-> lastRet.variant,
                   entry |-> lastRet.entry,
                   result |-> RoundTrip(lastRet.variant, lastRet.entry)]
    /\ UNCHANGED <<online, clock, cache, unsyncedStore, remote, nextUuid, calls,
                   listeners, saves>>

MapperSpec == MapperInit /\ [][ApplyMappers]_vars

\* ------------------------------------------------------------ the CSV import
EXPECTED_HEADERS ==
    {"utilitytype", "supplier", "readingdate", "reading", "unit", "amount", "notes"}

validUtilityTypes ==
    {"electricity", "water", "gas", "internet", "heat", "hot_water", "cold_water",
     "phone", "housing_service", "renovation", "loan", "interest", "insurance",
     "waste", "other"}

\* parseFloat on the cell texts of the rows below: the leading number of the
\* text, NaN when it has none.
parseFloat(text) ==
    CASE text = "12" -> [nan |-> FALSE, value |-> 12]
      [] text = "12abc" -> [nan |-> FALSE, value |-> 12]
      [] text = "10" -> [nan |-> FALSE, value |-> 10]
      [] text = "-5" -> [nan |-> FALSE, value |-> -5]
      [] OTHER -> [nan |-> TRUE, value |-> 0]

\* parse(text, "yyyy-MM-dd", new Date()) of date-fns gives a date for a
\* calendar day written that way and Invalid Date otherwise.
isValidDate(text) == text \in {"2024-01-31"}

\* The rows parseCSV builds under complete headers: a cell is the trimmed
\* text, "" when the line has no value for the header.
CsvRows ==
    [utilitytype : {"", "plasma", "electricity"},
     supplier : {"", "Acme"},
     readingdate : {"", "31/01/2024", "2024-01-31"},
     reading : {"", "abc", "12abc"},
     unit : {""},
     amount : {"", "abc", "-5", "10", "12"},
     notes : {""}]

ValidationError(rowIndex, field, message) ==
    [rowIndex |-> rowIndex, field |-> field, message |-> message]

\* The errors validateRow pushes, check by check, in the order of the code.
utilitytypeErrors(row, rowIndex) ==
    IF row.utilitytype = ""
    THEN <<ValidationError(rowIndex, "utilitytype", "Utility type is required")>>
    ELSE IF row.utilitytype \notin validUtilityTypes
    THEN <<ValidationError(rowIndex, "utilitytype", <<"Invalid utility type: ", row.utilitytype>>)>>
    ELSE <<>>

supplierErrors(row, rowIndex) ==
    IF row.supplier = ""
    THEN <<ValidationError(rowIndex, "supplier", "Supplier is required")>>
    ELSE <<>>

readingdateErrors(row, rowIndex) ==
    IF row.readingdate = ""
    THEN <<ValidationError(rowIndex, "readingdate", "Reading date is required")>>
    ELSE IF ~isValidDate(row.readingdate)
    THEN <<ValidationError(rowIndex, "readingdate", "Invalid date format. Use YYYY-MM-DD")>>
    ELSE <<>>

readingErrors(row, rowIndex) ==
    IF row.reading # "" /\ parseFloat(row.reading).nan
    THEN <<ValidationError(rowIndex, "reading", "Reading must be a number")>>
    ELSE <<>>

\* The amount check without the test of the sign.
amountErrorsAnySign(row, rowIndex) ==
    IF row.amount = ""
    THEN <<ValidationError(rowIndex, "amount", "Amount is required")>>
    ELSE IF parseFloat(row.amount).nan
    THEN <<ValidationError(rowIndex, "amount", "Amount must be a number")>>
    ELSE <<>>

amountErrors(row, rowIndex) ==
    IF row.amount = ""
    THEN <<ValidationError(rowIndex, "amount", "Amount is required")>>
    ELSE IF parseFloat(row.amount).nan
    THEN <<ValidationError(rowIndex, "amount", "Amount must be a number")>>
    ELSE IF parseFloat(row.amount).value < 0
    THEN <<ValidationError(rowIndex, "amount", "Amount must be positive")>>
    ELSE <<>>

\* The partial entry validateRow fills in: a field whose check failed stays
\* undefined.
rowEntry(row) ==
    [utilityType |-> IF row.utilitytype \in validUtilityTypes
                     THEN row.utilitytype ELSE Undefined,
     supplier |-> IF row.supplier # "" THEN row.supplier ELSE Undefined,
     readingDate |-> IF isValidDate(row.readingdate) THEN row.readingdate ELSE Undefined,
     reading |-> IF row.reading = "" THEN NullNum
                 ELSE IF parseFloat(row.reading).nan THEN UndefinedNum
                 ELSE parseFloat(row.reading).value,
     unit |-> IF row.unit # "" THEN row.unit ELSE Null,
     amount |-> IF row.amount # "" /\ ~parseFloat(row.amount).nan
                   /\ parseFloat(row.amount).value >= 0
                THEN parseFloat(row.amount).value ELSE UndefinedNum,
     notes |-> IF row.notes # "" THEN row.notes ELSE Null]

\* validateRow returning at the first check that fails.
validateRowFirstError(row, rowIndex) ==
    LET errors == utilitytypeErrors(row, rowIndex) \o supplierErrors(row, rowIndex)
                    \o readingdateErrors(row, rowIndex) \o readingErrors(row, rowIndex)
                    \o amountErrors(row, rowIndex)
    IN [entry |-> rowEntry(row),
        errors |-> IF errors = <<>> THEN <<>> ELSE <<errors[1]>>,
        rowIndex |-> rowIndex,
        rawData |-> row]

validateRow(row, rowIndex) ==
    LET errors == utilitytypeErrors(row, rowIndex) \o supplierErrors(row, rowIndex)
                    \o readingdateErrors(row, rowIndex) \o readingErrors(row, rowIndex)
                    \o amountErrors(row, rowIndex)
    IN [entry |-> rowEntry(row),
        errors |-> errors,
        rowIndex |-> rowIndex,
        rawData |-> row]

validateHeaders(headers) == EXPECTED_HEADERS \ headers

\* processCSV once parseCSV has split the content into headers and rows:
\* rows.map((row, index) => validateRow(row, index)), index from 0.
processCSV(headers, rows) ==
    IF validateHeaders(headers) # {}
    THEN [validatedEntries |-> <<>>, headerErrors |-> validateHeaders(headers)]
    ELSE [validatedEntries |-> [k \in 1..Len(rows) |-> validateRow(rows[k], k - 1)],
          headerErrors |-> {}]

\* A file of at most MaxRows data rows, its headers complete or without the
\* last one, is handed to processCSV.
CsvFiles ==
    [op : {"csv"}, headers : {EXPECTED_HEADERS, EXPECTED_HEADERS \ {"notes"}},
     rows : UNION {[1..n -> CsvRows] : n \in 1..MaxRows}]

CsvInit ==
    /\ online \in BOOLEAN
    /\ clock = 1
    /\ cache = <<>>
    /\ unsyncedStore = <<>>
    /\ remote = <<>>
    /\ nextUuid = 1
    /\ calls = EmptyBag
    /\ listeners = 1
    /\ saves = 0
    /\ lastRet \in CsvFiles

ProcessCSV ==
    /\ lastRet.op = "csv"
    /\ lastRet' = [op |-> "processCSV", headers |-> lastRet.headers,
                   rows |-> lastRet.rows,
                   result |-> processCSV(lastRet.headers, lastRet.rows)]
    /\ UNCHANGED <<online, clock, cache, unsyncedStore, remote, nextUuid, calls,
                   listeners, saves>>

CsvSpec == CsvInit /\ [][ProcessCSV]_vars

\* --------------------------------------------------- the import of a batch
\* validatedEntries.filter(ve => ve.errors.length === 0)
validEntries(validatedEntries) == SelectSeq(validatedEntries, LAMBDA ve : ve.errors = <<>>)

isValidUtilityEntry(entry) ==
    /\ entry.utilityType # Undefined
    /\ entry.supplier # Undefined
    /\ entry.readingDate # Undefined
    /\ entry.amount # UndefinedNum

\* `entry as UtilityEntry`: the partial entry of validateRow as saveEntry
\* reads it, without identifier, timestamps or payment fields (synced is
\* absent too; saveEntry sets it to false before it is read).
ImportedEntry(entry) ==
    [id |-> NoId, utilityType |-> entry.utilityType, supplier |-> entry.supplier,
     readingDate |-> entry.readingDate, reading |-> entry.reading, unit |-> entry.unit,
     amount |-> entry.amount, notes |-> entry.notes, synced |-> FALSE,
     createdAt |-> NoTime, updatedAt |-> NoTime,
     paymentDate |-> Undefined, paymentReference |-> Undefined]

\* handleImport suspended at `await utilityService.saveEntry(entry)` of the
\* i-th valid entry (i = 0: the Import button has not been clicked yet).
ImportAwait(entries, i, success, failed) ==
    [op |-> "handleImport", entries |-> entries, i |-> i,
     success |-> success, failed |-> failed]

\* The import dialog of an offline device with a validated file, before the
\* click on Import; nothing is stored yet.
ImportInit ==
    /\ online = FALSE
    /\ clock = 1
    /\ cache = <<>>
    /\ unsyncedStore = <<>>
    /\ remote = <<>>
    /\ nextUuid = 1
    /\ \E file \in CsvFiles :
         calls = SetToBag({ImportAwait(
                    validEntries(processCSV(file.headers, file.rows).validatedEntries),
                    0, 0, 0)})
    /\ listeners = 1
    /\ saves = 0
    /\ lastRet = NoRet

\* The click with no valid entry: a toast, and nothing else.
ImportNothing(call) ==
    /\ call.op = "handleImport"
    /\ call.i = 0
    /\ call.entries = <<>>
    /\ calls' = Finish(call)
    /\ lastRet' = [op |-> "handleImport", entries |-> call.entries,
                   success |-> 0, failed |-> 0, total |-> 0, imported |-> FALSE]
    /\ UNCHANGED <<online, clock, cache, unsyncedStore, remote, nextUuid, listeners, saves>>

\* One turn of the loop, from the click or from the await of the previous
\* turn: saveEntry of the next valid entry, which offline runs to its return
\* without a real await, and the await of it.
ImportSave(call) ==
    /\ call.op = "handleImport"
    /\ call.i < Len(call.entries)
    /\ ~online
    /\ LET entry == call.entries[call.i + 1].entry
           entryToSave == EntryToSave(ImportedEntry(entry), clock)
           r == saveLocalEntry([entryToSave EXCEPT !.synced = FALSE], clock)
       IN IF isValidUtilityEntry(entry)
          THEN /\ cache' = r.entries
               /\ unsyncedStore' = r.unsynced
               /\ calls' = Replace(call, ImportAwait(call.entries, call.i + 1,
                                                      call.success + 1, call.failed))
          ELSE /\ UNCHANGED <<cache, unsyncedStore>>
               /\ calls' = Replace(call, ImportAwait(call.entries, call.i + 1,
                                                      call.success, call.failed + 1))
    /\ lastRet' = NoRet
    /\ UNCHANGED <<online, clock, remote, nextUuid, listeners, saves>>

\* After the last turn: the result is set and the handler returns.
ImportDone(call) ==
    /\ call.op = "handleImport"
    /\ call.i > 0
    /\ call.i = Len(call.entries)
    /\ calls' = Finish(call)
    /\ lastRet' = [op |-> "handleImport", entries |-> call.entries,
                   success |-> call.success, failed |-> call.failed,
                   total |-> Len(call.entries), imported |-> TRUE]
    /\ UNCHANGED <<online, clock, cache, unsyncedStore, remote, nextUuid, listeners, saves>>

ImportNext ==
    \/ Tick
    \/ \E call \in Suspended : ImportNothing(call)
    \/ \E call \in Suspended : ImportSave(call)
    \/ \E call \in Suspended : ImportDone(call)

ImportSpec == ImportInit /\ [][ImportNext]_vars

\* ------------------------------------------------- the app opened once more
\* localStorage and the remote table outlive a page: the app opens on a
\* device that saved one entry while online in an earlier visit (saveEntry,
\* the upsert accepted, the confirmed row mirrored into the cache).
SeededRow ==
    StoredRow(mapToSupabaseModel(EntryToSave(NewEntry(1), 1)), Uuid(1), 1)

SeededInit ==
    /\ online \in BOOLEAN
    /\ clock = 1
    /\ cache = <<mapFromSupabaseModel(SeededRow)>>
    /\ unsyncedStore = <<>>
    /\ remote = Put(<<>>, Uuid(1), SeededRow)
    /\ nextUuid = 2
    /\ calls = EmptyBag
    /\ listeners = 1
    /\ saves = 0
    /\ lastRet = NoRet

SeededSpec == SeededInit /\ [][NextWithoutDelete]_vars

\* ------------------------------------------- a remote store with a spare uuid
\* uuid_generate_v4() never runs out. Here the remote store has one more
\* identifier to give than in Init (Uuid(0) before Uuid(1)), so that two
\* inserts of rows without id can both be accepted.
SpareUuidInit ==
    /\ online \in BOOLEAN
    /\ clock = 1
    /\ cache = <<>>
    /\ unsyncedStore = <<>>
    /\ remote = <<>>
    /\ nextUuid = 0
    /\ calls = EmptyBag
    /\ listeners = 1
    /\ saves = 0
    /\ lastRet = NoRet

SpareUuidSpec == SpareUuidInit /\ [][NextWithoutDelete]_vars

\* ================================================================== claims
UniqueIds(entries) ==
    \A a, b \in 1..Len(entries) : a # b => entries[a].id # entries[b].id

\* The records of `entries` under the identifier of `entry` are exactly one
\* record, equal to `entry`.
HoldsOnce(entries, entry) ==
    /\ Cardinality(WithId(entries, entry.id)) = 1
    /\ \A k \in WithId(entries, entry.id) : entries[k] = entry

C2_PartialFailure ==
    (lastRet.op = "syncUnsyncedEntries" /\ lastRet.online /\ lastRet.unsynced # <<>>) =>
        /\ lastRet.upserts = Len(lastRet.unsynced)
        /\ lastRet.result = Len(lastRet.unsynced) - Cardinality(lastRet.failed)
        /\ lastRet.undisturbed =>
             unsyncedStore = SelectSeq(lastRet.unsynced, LAMBDA e : e.id \in lastRet.failed)

C2_Witness ==
    /\ lastRet.op = "syncUnsyncedEntries"
    /\ Len(lastRet.unsynced) = 2
    /\ Cardinality(lastRet.failed) = 1
    /\ lastRet.undisturbed
    /\ lastRet.result = 1
    /\ Len(unsyncedStore) = 1

\* The continuation of a successful upsert of syncUnsyncedEntries runs in
\* this step: a call that holds the answer leaves the suspended calls or
\* moves on to the next entry.
SyncSucceeds(call) ==
    /\ call.op = "syncUnsyncedEntries"
    /\ call.pc = "replied"
    /\ ~call.resp.error
    /\ CopiesIn(call, calls') < CopiesIn(call, calls)

\* C3 as stated: after the successful upsert of a pending entry the old
\* identifier is in neither document, and the cache holds the confirmed
\* entry, synced = true, under the identifier the remote store returned.
C3_OldIdGone ==
    [][\A call \in Suspended :
         SyncSucceeds(call) =>
           LET old == call.unsynced[call.i].id
               confirmed == mapFromSupabaseModel(call.resp.data)
           IN /\ old \notin Ids(unsyncedStore')
              /\ old \notin Ids(cache')
              /\ confirmed \in Range(cache')
              /\ confirmed.synced]_vars

\* C3, amended: the record under the old identifier is gone from the cache
\* unless the remote store returned that same identifier, in which case the
\* record under it is the confirmed entry.
C3_OldRecordReplaced ==
    [][\A call \in Suspended :
         SyncSucceeds(call) =>
           LET old == call.unsynced[call.i].id
               confirmed == mapFromSupabaseModel(call.resp.data)
           IN /\ old \notin Ids(unsyncedStore')
              /\ old # confirmed.id => old \notin Ids(cache')
              /\ \A k \in WithId(cache', old) : cache'[k] = confirmed
              /\ confirmed \in Range(cache')
              /\ confirmed.synced]_vars

\* A run that has just returned after the upsert of its last entry succeeded.
C3_Witness ==
    /\ lastRet.op = "syncUnsyncedEntries"
    /\ lastRet.unsynced # <<>>
    /\ lastRet.unsynced[Len(lastRet.unsynced)].id \notin lastRet.failed
    /\ \E k \in 1..Len(cache) : cache[k].synced

\* A run of syncUnsyncedEntries holds a pending entry under `id` that it has
\* not gone past: connectivity was regained (or the run was called) while the
\* entry was in the Unsynced Set.
Draining(id) ==
    \E call \in Suspended :
        /\ call.op = "syncUnsyncedEntries"
        /\ \E k \in call.i..Len(call.unsynced) : call.unsynced[k].id = id

\* The upsert a run issued for the entry under `id` has been answered with an
\* error.
UpsertFailed(id) ==
    \E call \in Suspended :
        /\ call.op = "syncUnsyncedEntries"
        /\ call.pc = "replied"
        /\ call.resp.error
        /\ call.unsynced[call.i].id = id

\* A run has gone past the entry under `id` with its upsert accepted.
DrainSynced(id) ==
    \/ \E call \in Suspended :
          /\ call.op = "syncUnsyncedEntries"
          /\ id \notin call.failed
          /\ \E k \in 1..(call.i - 1) : call.unsynced[k].id = id
    \/ /\ lastRet.op = "syncUnsyncedEntries"
       /\ lastRet.online
       /\ id \in Ids(lastRet.unsynced)
       /\ id \notin lastRet.failed

\* The entry under `id` is stored in the remote store and gone from the
\* Unsynced Set: a run has had its upsert accepted, the remote store holds
\* the confirmed record the run wrote to the cache (under `id` itself when
\* `id` is a server identifier).
Settled(id) ==
    /\ DrainSynced(id)
    /\ id \notin Ids(unsyncedStore)
    /\ \E k \in 1..Len(cache) : cache[k].synced /\ cache[k].id \in DOMAIN remote
    /\ ~startsWithLocal(id) => id \in DOMAIN remote

C6_CacheIdsUnique == UniqueIds(cache)

\* C7: deleteEntry of a `local-` identifier issues no remote call, returns
\* true and leaves the identifier in neither document.
C7_DeleteLocalId ==
    (lastRet.op = "deleteEntry" /\ startsWithLocal(lastRet.id)) =>
        /\ lastRet.deletes = 0
        /\ lastRet.result = TRUE
        /\ lastRet.id \notin Ids(cache)
        /\ lastRet.id \notin Ids(unsyncedStore)

C7_Witness ==
    /\ lastRet.op = "deleteEntry"
    /\ startsWithLocal(lastRet.id)
    /\ lastRet.online
    /\ lastRet.result = TRUE

\* C8: deleteEntry whose remote delete answers with an error returns false
\* and writes neither document.
C8_DeleteRemoteError ==
    [][(lastRet'.op = "deleteEntry" /\ lastRet'.remote = "error") =>
         /\ lastRet'.result = FALSE
         /\ UNCHANGED <<cache, unsyncedStore>>]_vars

C8_Witness ==
    /\ lastRet.op = "deleteEntry"
    /\ lastRet.remote = "error"
    /\ lastRet.result = FALSE
    /\ lastRet.id \in Ids(cache)
    /\ lastRet.id \in Ids(unsyncedStore)

\* C9: deleteAllEntries while offline issues no remote call, empties both
\* documents and returns true.
C9_DeleteAllOffline ==
    (lastRet.op = "deleteAllEntries" /\ ~lastRet.online) =>
        /\ lastRet.deletes = 0
        /\ cache = <<>>
        /\ unsyncedStore = <<>>
        /\ lastRet.result = TRUE

C9_Witness ==
    /\ lastRet.op = "deleteAllEntries"
    /\ ~lastRet.online
    /\ lastRet.held >= 2
    /\ cache = <<>>

\* C10: getEntries offline, or with a failed fetch, returns the contents of
\* the Local Cache Store and writes neither document.
C10_GetEntriesFallback ==
    [][(lastRet'.op = "getEntries" /\ lastRet'.remote # "ok") =>
         /\ lastRet'.result = cache
         /\ UNCHANGED <<cache, unsyncedStore>>]_vars

C10_Witness ==
    /\ lastRet.op = "getEntries"
    /\ lastRet.remote = "error"
    /\ lastRet.result # <<>>
    /\ lastRet.result = cache

C12_SaveReturnsEntry ==
    lastRet.op = "saveEntry" =>
        /\ lastRet.outcome = "entry"
        /\ lastRet.result.id # NoId
        /\ lastRet.entry.id # NoId => lastRet.result.id = lastRet.entry.id
        /\ lastRet.result.readingDate = lastRet.entry.readingDate
        /\ lastRet.result.utilityType = lastRet.entry.utilityType
        /\ lastRet.result.amount = lastRet.entry.amount

\* A saveEntry has returned an entry that no write stored.
C12_Witness ==
    /\ lastRet.op = "saveEntry"
    /\ lastRet.storage = "entries"
    /\ lastRet.outcome = "entry"
    /\ lastRet.result \notin Range(cache)

\* C13: mapping an entry to the remote model and back gives the entry again
\* in every field, payment date and payment reference included, but for
\* synced, which is true.
C13_RoundTrip ==
    lastRet.op = "roundTrip" =>
        lastRet.result = [lastRet.entry EXCEPT !.synced = TRUE]

C15_OneRunPerTransition ==
    [][(~online /\ online' /\ unsyncedStore # <<>>) =>
         BagCardinality(calls') = BagCardinality(calls) + 1]_vars

\* The fields of a row that fail their check.
FailingFields(row) ==
    {f \in {"utilitytype", "supplier", "readingdate", "reading", "amount"} :
       CASE f = "utilitytype" -> row.utilitytype \notin validUtilityTypes
         [] f = "supplier" -> row.supplier = ""
         [] f = "readingdate" -> ~isValidDate(row.readingdate)
         [] f = "reading" -> row.reading # "" /\ parseFloat(row.reading).nan
         [] f = "amount" -> \/ row.amount = ""
                            \/ parseFloat(row.amount).nan
                            \/ parseFloat(row.amount).value < 0}

\* C16: validateRow reports one error for every field of a row that fails
\* its check, not only the first, each with the index of the row and the
\* name of the field; every row of the batch is validated, whatever the
\* other rows hold.
C16_EveryFailingField ==
    (lastRet.op = "processCSV" /\ lastRet.result.headerErrors = {}) =>
        /\ Len(lastRet.result.validatedEntries) = Len(lastRet.rows)
        /\ \A k \in 1..Len(lastRet.rows) :
             LET v == lastRet.result.validatedEntries[k]
             IN /\ v.rowIndex = k - 1
                /\ v.rawData = lastRet.rows[k]
                /\ {v.errors[j].field : j \in 1..Len(v.errors)} = FailingFields(lastRet.rows[k])
                /\ Len(v.errors) = Cardinality(FailingFields(lastRet.rows[k]))
                /\ \A j \in 1..Len(v.errors) : v.errors[j].rowIndex = k - 1

\* A batch whose first row fails every check and whose second row passes.
C16_Witness ==
    /\ lastRet.op = "processCSV"
    /\ Len(lastRet.result.validatedEntries) = 2
    /\ Len(lastRet.result.validatedEntries[1].errors) = 5
    /\ lastRet.result.validatedEntries[2].errors = <<>>

\* C17: when saveEntry returns after the remote store accepted its upsert,
\* the Unsynced Set holds no copy of the identifier written before that
\* save: a copy still pending is a later write that did not reach the
\* remote store.
C17_SavedOnlineNotPending ==
    (lastRet.op = "saveEntry" /\ lastRet.remote = "ok") =>
        \A k \in WithId(unsyncedStore, lastRet.result.id) :
            unsyncedStore[k].updatedAt >= lastRet.result.updatedAt

\* C18: an entry created locally gives rise to at most one record of the
\* remote store. Nothing is deleted in these runs, so the remote store never
\* holds more records than saveEntry was called.
C18_OneRemoteRecordPerEntry == Cardinality(DOMAIN remote) <= saves

\* C19: local-only saves of distinct entries without identifiers get
\* distinct placeholder identifiers, whatever the clock: after the import of
\* a batch of distinct rows on an offline device, the Local Cache Store and
\* the Unsynced Set hold one record for every entry saved.
C19_DistinctPlaceholders ==
    (/\ lastRet.op = "handleImport"
     /\ \A a, b \in 1..Len(lastRet.entries) :
          a # b => lastRet.entries[a].entry # lastRet.entries[b].entry) =>
        /\ Len(cache) = lastRet.success
        /\ Len(unsyncedStore) = lastRet.success
        /\ UniqueIds(cache)

\* The step is the remote store accepting the upsert of a run of
\* syncUnsyncedEntries for the record `id`.
SyncUpsertServed(id) ==
    /\ id \in DOMAIN remote
    /\ remote'[id] # remote[id]
    /\ \E call \in Suspended :
         /\ call.op = "syncUnsyncedEntries"
         /\ call.pc = "sent"
         /\ call.req.id = id
         /\ remote'[id] = StoredRow(call.req, id, clock)
         /\ calls' = Reply(call, [error |-> FALSE, data |-> remote'[id], served |-> TRUE])

\* C20: syncUnsyncedEntries never replaces a remote record with values older
\* than those of the latest successful online saveEntry for the identifier:
\* right after saveEntry has returned the entry the remote store confirmed,
\* an upsert of a run of syncUnsyncedEntries leaves the remote record at
\* least as recent as that entry.
C20_SyncKeepsLatestSave ==
    [][(/\ lastRet.op = "saveEntry"
        /\ lastRet.remote = "ok"
        /\ SyncUpsertServed(lastRet.result.id)) =>
           remote'[lastRet.result.id].updated_at >= lastRet.result.updatedAt]_vars

\* C21: a getEntries whose fetch succeeded writes the mapped rows of the
\* response to the Local Cache Store in place of what it held (no local-only
\* record is kept), returns those same entries and leaves the Unsynced Set
\* as it was.
C21_GetEntriesOverwrites ==
    [][(lastRet'.op = "getEntries" /\ lastRet'.remote = "ok") =>
         /\ \E call \in Suspended :
              /\ call.op = "getEntries"
              /\ call.pc = "replied"
              /\ ~call.resp.error
              /\ calls' = Finish(call)
              /\ lastRet'.result = MapAll(call.resp.data)
         /\ cache' = lastRet'.result
         /\ \A k \in 1..Len(cache') : ~startsWithLocal(cache'[k].id) /\ cache'[k].synced
         /\ UNCHANGED unsyncedStore]_vars

\* A fetch that brought a record back while the cache held a local-only
\* record, which is still pending afterwards.
C21_Witness ==
    /\ lastRet.op = "getEntries"
    /\ lastRet.remote = "ok"
    /\ lastRet.result # <<>>
    /\ cache = lastRet.result
    /\ \E k \in 1..Len(unsyncedStore) :
         /\ startsWithLocal(unsyncedStore[k].id)
         /\ unsyncedStore[k].id \notin Ids(cache)

\* C22: every identifier of the Unsynced Set has a record in the Local Cache
\* Store.
C22_UnsyncedInCache == Ids(unsyncedStore) \subseteq Ids(cache)

\* C23: deleteEntry does not return true while the remote store holds a
\* record under the identifier.
C23_DeleteNotReportedWhileRemote ==
    (lastRet.op = "deleteEntry" /\ lastRet.result = TRUE) =>
        lastRet.id \notin DOMAIN remote

\* The step takes the suspended call one step further: it is served, or its
\* continuation runs.
Stepped(call) == CopiesIn(call, calls') < CopiesIn(call, calls)

\* C24: after deleteEntry(id) has returned true, a run of syncUnsyncedEntries
\* that was suspended on that entry during the delete neither gets its upsert
\* of the entry into the remote store nor puts the entry back into the Local
\* Cache Store.
C24_DeletedStaysDeleted ==
    [][(lastRet.op = "deleteEntry" /\ lastRet.result = TRUE) =>
         \A call \in Suspended :
             (/\ call.op = "syncUnsyncedEntries"
              /\ call.unsynced[call.i].id = lastRet.id
              /\ Stepped(call)) =>
                 /\ call.pc = "sent" => remote' = remote
                 /\ call.pc = "replied" => Range(cache') \subseteq Range(cache)]_vars

C26_CreatedAtKept ==
    [][lastRet'.op = "saveEntry" =>
         \A k \in WithId(cache, lastRet'.result.id) :
             cache[k].createdAt # NoTime =>
                 lastRet'.result.createdAt = cache[k].createdAt]_vars

\* The records of a document under identifiers other than `ids`, in order.
Others(entries, ids) == SelectSeq(entries, LAMBDA e : e.id \notin ids)

\* The identifiers the continuation of a suspended call writes records for.
TouchedBy(call) ==
    CASE call.op = "saveEntry" ->
           IF call.resp.error
           THEN {IF call.entryToSave.id = NoId THEN LocalId(clock) ELSE call.entryToSave.id}
           ELSE {call.resp.data.id}
      [] call.op = "deleteEntry" -> {call.id}
      [] call.op = "syncUnsyncedEntries" ->
           {call.unsynced[call.i].id}
             \cup (IF call.resp.error THEN {} ELSE {call.resp.data.id})
      [] OTHER -> {}

\* C27: the read-modify-write of a document by saveEntry, deleteEntry and
\* syncUnsyncedEntries is atomic: the document written is the document as it
\* was right before the write with only the records of the entry at hand
\* changed, so no write made by another operation in the meantime is lost;
\* and a run of syncUnsyncedEntries has issued as many upserts as the
\* position it waits at, one at a time.
C27_AtomicReadModifyWrite ==
    [][/\ \A call \in Suspended :
            (/\ call.op \in {"saveEntry", "deleteEntry", "syncUnsyncedEntries"}
             /\ call.pc = "replied"
             /\ Stepped(call)) =>
                /\ Others(cache', TouchedBy(call)) = Others(cache, TouchedBy(call))
                /\ Others(unsyncedStore', TouchedBy(call))
                     = Others(unsyncedStore, TouchedBy(call))
       /\ (lastRet'.op = "saveEntry" /\ ~lastRet'.online) =>
            /\ Others(cache', {lastRet'.result.id}) = Others(cache, {lastRet'.result.id})
            /\ Others(unsyncedStore', {lastRet'.result.id})
                 = Others(unsyncedStore, {lastRet'.result.id})
       /\ (lastRet'.op = "deleteEntry" /\ lastRet'.deletes = 0) =>
            /\ Others(cache', {lastRet'.id}) = Others(cache, {lastRet'.id})
            /\ Others(unsyncedStore', {lastRet'.id}) = Others(unsyncedStore, {lastRet'.id})
       /\ \A call \in Suspended :
            call.op = "syncUnsyncedEntries" => call.upserts = call.i]_vars

\* A run of syncUnsyncedEntries has returned after another operation wrote
\* the Unsynced Set during one of its awaits, and the cache holds a record
\* next to the one the run confirmed.
C27_Witness ==
    /\ lastRet.op = "syncUnsyncedEntries"
    /\ lastRet.result >= 1
    /\ ~lastRet.undisturbed
    /\ Len(cache) >= 2

C29_NoLocalIdSent ==
    /\ \A call \in Suspended :
         call.op \in {"saveEntry", "syncUnsyncedEntries"} => ~startsWithLocal(call.req.id)
    /\ \A id \in DOMAIN remote : ~startsWithLocal(id)

\* C30: deleteAllEntries whose bulk remote delete answers with an error
\* returns false and writes neither document.
C30_DeleteAllRemoteError ==
    [][(lastRet'.op = "deleteAllEntries" /\ lastRet'.remote = "error") =>
         /\ lastRet'.result = FALSE
         /\ lastRet'.deletes = 1
         /\ UNCHANGED <<cache, unsyncedStore>>]_vars

C30_Witness ==
    /\ lastRet.op = "deleteAllEntries"
    /\ lastRet.remote = "error"
    /\ lastRet.result = FALSE
    /\ cache # <<>>
    /\ unsyncedStore # <<>>
    /\ remote # <<>>

\* C31: an entry put in the Unsynced Set by a saveEntry whose upsert failed
\* while the device was online is eventually synced and leaves the Unsynced
\* Set, the remote store accepting upserts again, without the device having
\* to go offline and online again: it leaves the Unsynced Set, or else the
\* device has gone offline.
C31_FailedSaveEventuallySynced ==
    \A id \in AllIds :
        (/\ lastRet.op = "saveEntry"
         /\ lastRet.remote = "error"
         /\ lastRet.result.id = id) ~> (id \notin Ids(unsyncedStore) \/ ~online)

\* C32: the continuation of an accepted upsert of syncUnsyncedEntries removes
\* the pending copy it upserted, not a newer one: a copy a saveEntry stored
\* under the same identifier during the remote call is still in the Unsynced
\* Set afterwards, and still in the Local Cache Store if it was there.
C32_NewerCopyKept ==
    [][\A call \in Suspended :
          (/\ call.op = "syncUnsyncedEntries"
           /\ call.pc = "replied"
           /\ ~call.resp.error
           /\ Stepped(call)) =>
              \A k \in WithId(unsyncedStore, call.unsynced[call.i].id) :
                  unsyncedStore[k].updatedAt > call.unsynced[call.i].updatedAt =>
                      /\ unsyncedStore[k] \in Range(unsyncedStore')
                      /\ unsyncedStore[k] \in Range(cache) =>
                           unsyncedStore[k] \in Range(cache')]_vars

\* C33: a run of syncUnsyncedEntries invoked while offline, or with nothing
\* pending, returns 0 without a remote call and writes neither document; no
\* run gets to its first upsert unless the device is online and an entry is
\* pending.
C33_SyncNoOp ==
    [][/\ (/\ lastRet'.op = "syncUnsyncedEntries"
           /\ ~lastRet'.online \/ lastRet'.unsynced = <<>>) =>
              /\ lastRet'.result = 0
              /\ lastRet'.upserts = 0
              /\ UNCHANGED <<cache, unsyncedStore, remote, calls>>
       /\ \A call \in BagToSet(calls') :
              (/\ call.op = "syncUnsyncedEntries"
               /\ call.pc = "sent"
               /\ call.i = 1
               /\ CopiesIn(call, calls') > CopiesIn(call, calls)) =>
                  /\ online'
                  /\ unsyncedStore # <<>>]_vars

\* The run invoked offline while an entry is pending.
C33_Witness ==
    /\ lastRet.op = "syncUnsyncedEntries"
    /\ ~lastRet.online
    /\ lastRet.result = 0
    /\ unsyncedStore # <<>>
    /\ calls = EmptyBag

\* C34: a row validateRow returns without errors has a utility type of the
\* enumeration, a supplier, a reading date that parses as yyyy-MM-dd and an
\* amount that is a number >= 0; handleImport hands saveEntry those rows
\* only, one call per row, none counted as failed, and what it stored are
\* such entries.
C34_OnlyValidRowsImported ==
    /\ \A call \in Suspended :
         call.op = "handleImport" =>
            /\ \A k \in 1..Len(call.entries) :
                 LET ve == call.entries[k]
                 IN /\ ve.errors = <<>>
                    /\ ve.rawData.utilitytype \in validUtilityTypes
                    /\ ve.rawData.supplier # ""
                    /\ isValidDate(ve.rawData.readingdate)
                    /\ ~parseFloat(ve.rawData.amount).nan
                    /\ parseFloat(ve.rawData.amount).value >= 0
                    /\ ve.entry.utilityType = ve.rawData.utilitytype
                    /\ ve.entry.supplier = ve.rawData.supplier
                    /\ ve.entry.readingDate = ve.rawData.readingdate
                    /\ ve.entry.amount = parseFloat(ve.rawData.amount).value
            /\ call.success = call.i
            /\ call.failed = 0
    /\ lastRet.op = "handleImport" =>
         /\ lastRet.success = Len(lastRet.entries)
         /\ lastRet.failed = 0
    /\ \A k \in 1..Len(cache) :
         /\ cache[k].utilityType \in validUtilityTypes
         /\ cache[k].supplier # ""
         /\ isValidDate(cache[k].readingDate)
         /\ cache[k].amount >= 0

\* Two rows imported with the clock advancing in between: both are stored.
C34_Witness ==
    /\ lastRet.op = "handleImport"
    /\ lastRet.success = 2
    /\ Len(cache) = 2
    /\ cache[1].amount # cache[2].amount

\* The run `call` after the step: in flight at position i with the same
\* snapshot.
RunGoesOn(call, i, pc) ==
    \E next \in BagToSet(calls') :
        /\ CopiesIn(next, calls') > CopiesIn(next, calls)
        /\ next.op = "syncUnsyncedEntries"
        /\ next.pc = pc
        /\ next.unsynced = call.unsynced
        /\ next.i = i
        /\ next.upserts = i

\* C35: a run of syncUnsyncedEntries walks once through the entries that
\* were pending when it started, whatever is saved meanwhile: it starts at
\* the first entry of its snapshot, an answer to its upsert leaves it at the
\* same entry, each continuation either moves it to the next entry of the
\* same snapshot or, at the last entry, returns; so the upserts of a run are
\* as many as the entries it has reached, one per entry, and the run returns
\* after as many answers as the snapshot has entries.
C35_SyncRunBounded ==
    [][/\ \A call \in BagToSet(calls') :
             call.op = "syncUnsyncedEntries" =>
                /\ call.i \in 1..Len(call.unsynced)
                /\ call.upserts = call.i
                /\ \A a, b \in 1..Len(call.unsynced) :
                       a # b => call.unsynced[a].id # call.unsynced[b].id
                /\ (call.i = 1 /\ call.pc = "sent"
                      /\ CopiesIn(call, calls') > CopiesIn(call, calls)) =>
                       call.unsynced = unsyncedStore
       /\ \A call \in Suspended :
             (call.op = "syncUnsyncedEntries" /\ Stepped(call)) =>
                IF call.pc = "sent"
                THEN RunGoesOn(call, call.i, "replied")
                ELSE IF call.i < Len(call.unsynced)
                THEN RunGoesOn(call, call.i + 1, "sent")
                ELSE /\ lastRet'.op = "syncUnsyncedEntries"
                     /\ lastRet'.unsynced = call.unsynced
                     /\ lastRet'.upserts = Len(call.unsynced)
                     /\ BagCardinality(calls') < BagCardinality(calls)]_vars

\* A run has returned after one upsert per entry of its snapshot while an
\* entry saved during the run is pending.
C35_Witness ==
    /\ lastRet.op = "syncUnsyncedEntries"
    /\ lastRet.online
    /\ lastRet.upserts = Len(lastRet.unsynced)
    /\ ~lastRet.undisturbed
    /\ \E id \in Ids(unsyncedStore) : id \notin Ids(lastRet.unsynced)

====
